---------------------------- MODULE Spec2Model ----------------------------
(***************************************************************************)
(* Model of proxy-manager (Mamaaz/D): the per-protocol install / update /  *)
(* uninstall functions of internal/install, the service table of           *)
(* internal/services and the health check of internal/health.              *)
(*                                                                         *)
(* The host is modelled by the files the code tests or writes (binaries,   *)
(* their .bak siblings, each protocol's configuration directory, the       *)
(* *-proxy-config.txt Installation records, systemd unit files), by the    *)
(* systemd state of each unit (enabled, active) and by the OS users.       *)
(*                                                                         *)
(* Environment: network calls, acme.sh, `sing-box check`, `systemctl       *)
(* daemon-reload` and starting a daemon may fail; operations on the local  *)
(* file system done as root (write, rename, remove, open for append)       *)
(* succeed, where renaming or removing an absent file changes nothing;     *)
(* `systemctl stop` always ends with the unit inactive.                    *)
(***************************************************************************)
EXTENDS Naturals, Sequences, FiniteSets

(* ------------------------------ bounds -------------------------------- *)
MaxOps == 3                 \* lifecycle operations started in one run
MaxTicks == 2               \* health ticks started in one run
MaxConcCalls == 3           \* operations plus ticks started in a run with the daemon
MaxSingboxTag == 13         \* newest sing-box release the lookup can report
MaxRetries == 3             \* the largest retry count DownloadFile is called with
MaxEntries == 2             \* headers in an archive
MaxSegments == 2            \* segments in the name of a header
MaxValueLen == 2            \* characters in a value of a record
MaxEdits == 1               \* lines added by hand, and updates, per record file
MaxShadowTLSTag == 26       \* newest shadow-tls release the lookup can report

(* ------------------------- program constants -------------------------- *)
\* versions are written as one number: "4.1.1" |-> 411, "v1.12.0" |-> 12,
\* "v0.2.25" |-> 25
DefaultSnellVersion == 411
DefaultSingboxVersion == 12
DefaultShadowTLSVersion == 25
VerifyWait == 10            \* VerifyServiceStarted(name, 10)
VerifyWaitTLS == 15         \* VerifyServiceStarted(name, 15)

Prot == {"snell", "singbox", "reality", "hysteria2", "anytls"}
TLSProt == {"hysteria2", "anytls"}
Units == {"snell", "shadow-tls", "sing-box", "sing-box-reality", "hysteria2", "anytls"}
Bins == {"snell-server", "shadow-tls", "sing-box"}
Users == {"snell", "sing-box", "hysteria2", "anytls"}

Absent == 0                 \* no file at a binary path
Partial == 1                \* a file holding the beginning of a download
NoRecord == [version |-> 0, stls |-> 0, domain |-> "", certType |-> "none"]
NoTag == 0                  \* the version lookup failed or returned an empty tag
NoCert == 0                 \* no certificate, or no key / certificate file
\* the key and certificate file of a TLS protocol: the certificate each was
\* copied from, the owner of both and the mode of each
NoTLS == [key |-> NoCert, crt |-> NoCert, owner |-> "root",
          keyMode |-> "none", crtMode |-> "none"]

\* services.Services[p].SystemdName
SystemdName(p) ==
  CASE p = "snell" -> "snell"
    [] p = "singbox" -> "sing-box"
    [] p = "reality" -> "sing-box-reality"
    [] p = "hysteria2" -> "hysteria2"
    [] p = "anytls" -> "anytls"

\* the binary the ExecStart line of unit u runs
BinOfUnit(u) ==
  CASE u = "snell" -> "snell-server"
    [] u = "shadow-tls" -> "shadow-tls"
    [] OTHER -> "sing-box"

\* the protocol whose install creates unit u
ProtOfUnit(u) ==
  CASE u = "snell" -> "snell"
    [] u = "shadow-tls" -> "snell"
    [] u = "sing-box" -> "singbox"
    [] u = "sing-box-reality" -> "reality"
    [] u = "hysteria2" -> "hysteria2"
    [] u = "anytls" -> "anytls"

\* the User= line of unit u
UserOfUnit(u) ==
  CASE u = "snell" -> "snell"
    [] u = "sing-box" -> "sing-box"
    [] u = "hysteria2" -> "hysteria2"
    [] u = "anytls" -> "anytls"
    [] OTHER -> "root"

\* the binary whose version the record's version field names
BinOf(p) == IF p = "snell" THEN "snell-server" ELSE "sing-box"

VARIABLES
  record,      \* record[p]: the Installation record file of p, or NoRecord
  bin,         \* bin[b]: version of the file at the binary path, or Absent
  bak,         \* bak[b]: version of the file at the .bak sibling, or Absent
  etc,         \* etc[p]: what exists in p's configuration directory
  unit,        \* unit[u]: the unit definition file exists
  enabled,     \* enabled[u]: systemd has the unit enabled
  active,      \* active[u]: `systemctl is-active u` answers "active"
  user,        \* user[n]: the OS user exists
  op,          \* the lifecycle operation in progress, or "idle"
  prot,        \* the protocol it works on
  steps,       \* the statements it still has to execute
  loc,         \* its local variables
  trace,       \* the statements it has executed so far
  last,        \* what the last finished operation returned
  nops,        \* operations started
  hpc,         \* position of health.Check / RunDaemon
  todo,        \* protocols the running tick has not examined yet
  hcur,        \* the protocol the tick is restarting
  hasError,    \* Check's hasError
  hlog,        \* the health log, oldest line first
  ticks,       \* ticks started
  tickResult,  \* what the last finished tick returned
  acmeSh,      \* ~/.acme.sh/acme.sh exists
  acme,        \* the certificate acme.sh holds for the domain, or NoCert
  issued,      \* certificates issued so far; they are numbered 1, 2, ...
  tls,         \* tls[p]: key and certificate file in p's config directory
  call         \* the library call under examination, or NoCall

certVars == <<acmeSh, acme, issued, tls>>
fsVars == <<record, bin, bak, etc, unit, user, acmeSh, acme, issued, tls>>
sdVars == <<enabled, active>>
orchVars == <<op, prot, steps, loc, trace, last, nops>>
healthVars == <<hpc, todo, hcur, hasError, hlog, ticks, tickResult>>
vars == <<record, bin, bak, etc, unit, enabled, active, user,
          op, prot, steps, loc, trace, last, nops,
          hpc, todo, hcur, hasError, hlog, ticks, tickResult,
          acmeSh, acme, issued, tls, call>>

S(k, x) == [k |-> k, x |-> x]

NoLoc == [ver |-> 0, stls |-> 0, domain |-> "", cur |-> 0, err |-> "",
          checked |-> FALSE, polls |-> 0, slow |-> FALSE, failed |-> FALSE,
          preBin |-> 0, preRec |-> NoRecord, again |-> FALSE,
          attempts |-> <<>>, preTls |-> NoTLS,
          hadUnit |-> FALSE, removed |-> "", affirmed |-> FALSE,
          tag |-> NoTag]
NoLast == [op |-> "none", p |-> "none", res |-> "none", why |-> "",
           trace |-> <<>>, ver |-> 0, cur |-> 0, slow |-> FALSE,
           failed |-> FALSE,
           preBin |-> 0, preRec |-> NoRecord, again |-> FALSE,
           attempts |-> <<>>, preTls |-> NoTLS]

\* no library call is under examination
NoCall == [fn |-> "none"]

\* a host on which nothing has been installed
FreshHost ==
  /\ record = [p \in Prot |-> NoRecord]
  /\ bin = [b \in Bins |-> Absent]
  /\ bak = [b \in Bins |-> Absent]
  /\ etc = [p \in Prot |-> {}]
  /\ unit = [u \in Units |-> FALSE]
  /\ enabled = [u \in Units |-> FALSE]
  /\ active = [u \in Units |-> FALSE]
  /\ user = [n \in Users |-> FALSE]
  /\ op = "idle"
  /\ prot = "none"
  /\ steps = <<>>
  /\ loc = NoLoc
  /\ trace = <<>>
  /\ last = NoLast
  /\ nops = 0
  /\ hpc = "idle"
  /\ todo = {}
  /\ hcur = "none"
  /\ hasError = FALSE
  /\ hlog = <<>>
  /\ ticks = 0
  /\ tickResult = "none"
  /\ acmeSh = FALSE
  /\ acme = NoCert
  /\ issued = 0
  /\ tls = [p \in TLSProt |-> NoTLS]

Init == FreshHost /\ call = NoCall


(* ------------------- the statements of each function ------------------ *)
\* faulty variant: the reload comes before the unit file is deleted
RemoveSystemdServiceReloadFirst(name) ==
  <<S("stop", name), S("disable", name), S("reload", name), S("rmunit", name)>>

\* common.go RemoveSystemdService(name)
RemoveSystemdService(name) ==
  <<S("stop", name), S("disable", name), S("rmunit", name), S("reload", name)>>

InstallSnell ==
  <<S("precheck", ""), S("lookup", ""),
    S("download", "snell-server"), S("download", "shadow-tls"),
    S("config", ""), S("user", "snell"),
    S("unit", "snell"), S("unit", "shadow-tls"),
    S("enable", "snell"), S("enable", "shadow-tls"),
    S("start", "snell"), S("start", "shadow-tls"),
    S("verify", "snell"), S("verify", "shadow-tls"),
    S("save", "")>>

\* faulty variant: the Installation record is written before the service
\* is started and verified
InstallSingboxSaveFirst ==
  <<S("precheck", ""), S("lookup", ""), S("download", "sing-box"),
    S("config", ""), S("user", "sing-box"), S("unit", "sing-box"),
    S("save", ""), S("enable", "sing-box"), S("start", "sing-box"),
    S("verify", "sing-box")>>

InstallSingbox ==
  <<S("precheck", ""), S("lookup", ""), S("download", "sing-box"),
    S("config", ""), S("user", "sing-box"), S("unit", "sing-box"),
    S("enable", "sing-box"), S("start", "sing-box"),
    S("verify", "sing-box"), S("save", "")>>

\* faulty variant: the service is started before it is enabled
InstallRealityStartBeforeEnable ==
  <<S("precheck", ""), S("lookup", ""), S("download", "sing-box"),
    S("config", ""), S("user", "sing-box"), S("unit", "sing-box-reality"),
    S("start", "sing-box-reality"), S("enable", "sing-box-reality"),
    S("verify", "sing-box-reality"), S("save", "")>>

InstallReality ==
  <<S("precheck", ""), S("lookup", ""), S("download", "sing-box"),
    S("config", ""), S("user", "sing-box"), S("unit", "sing-box-reality"),
    S("enable", "sing-box-reality"), S("start", "sing-box-reality"),
    S("verify", "sing-box-reality"), S("save", "")>>

\* faulty variant: the config directory is created before the certificate
\* is issued
InstallHysteria2MkdirFirst ==
  <<S("precheck", ""), S("lookup", ""), S("download", "sing-box"),
    S("domain", ""), S("mkdir", ""), S("issue", ""), S("cert", ""),
    S("config", ""), S("user", "hysteria2"), S("unit", "hysteria2"),
    S("enable", "hysteria2"), S("start", "hysteria2"),
    S("verify", "hysteria2"), S("save", "")>>

InstallHysteria2 ==
  <<S("precheck", ""), S("lookup", ""), S("download", "sing-box"),
    S("domain", ""), S("issue", ""), S("mkdir", ""), S("cert", ""),
    S("config", ""), S("user", "hysteria2"), S("unit", "hysteria2"),
    S("enable", "hysteria2"), S("start", "hysteria2"),
    S("verify", "hysteria2"), S("save", "")>>

InstallAnyTLS ==
  <<S("precheck", ""), S("lookup", ""), S("download", "sing-box"),
    S("domain", ""), S("issue", ""), S("mkdir", ""), S("cert", ""),
    S("config", ""), S("user", "anytls"), S("unit", "anytls"),
    S("enable", "anytls"), S("start", "anytls"),
    S("verify", "anytls"), S("save", "")>>

\* faulty variant: the renewal writes the Installation record again
RenewAnyTLSCertSavesRecord ==
  <<S("renew", ""), S("cert", ""), S("restart", "anytls"), S("save", "")>>

\* RenewHysteria2Cert / RenewAnyTLSCert past their two early returns
RenewHysteria2Cert ==
  <<S("renew", ""), S("cert", ""), S("restart", "hysteria2")>>

RenewAnyTLSCert ==
  <<S("renew", ""), S("cert", ""), S("restart", "anytls")>>

RenewSteps(p) ==
  CASE p = "hysteria2" -> RenewHysteria2Cert
    [] p = "anytls" -> RenewAnyTLSCert

InstallSteps(p) ==
  CASE p = "snell" -> InstallSnell
    [] p = "singbox" -> InstallSingbox
    [] p = "reality" -> InstallReality
    [] p = "hysteria2" -> InstallHysteria2
    [] p = "anytls" -> InstallAnyTLS

UninstallSnell ==
  RemoveSystemdService("shadow-tls") \o RemoveSystemdService("snell") \o
  <<S("rmbin", "snell-server"), S("rmbin", "shadow-tls"), S("rmetc", ""),
    S("rmrecord", ""), S("deluser", "snell")>>

UninstallSingbox ==
  RemoveSystemdService("sing-box") \o
  <<S("rmetc", ""), S("rmrecord", ""), S("rmshared", "")>>

\* faulty variant: the Installation record is left in place
UninstallRealityKeepsRecord ==
  RemoveSystemdService("sing-box-reality") \o
  <<S("rmetc", ""), S("rmshared", "")>>

UninstallReality ==
  RemoveSystemdService("sing-box-reality") \o
  <<S("rmetc", ""), S("rmrecord", ""), S("rmshared", "")>>

\* faulty variant: the config directory is deleted before the unit is
\* removed
UninstallHysteria2FilesFirst ==
  <<S("certremove", ""), S("rmetc", "")>> \o RemoveSystemdService("hysteria2") \o
  <<S("rmrecord", ""), S("deluser", "hysteria2")>>

UninstallHysteria2 ==
  <<S("certremove", "")>> \o RemoveSystemdService("hysteria2") \o
  <<S("rmetc", ""), S("rmrecord", ""), S("deluser", "hysteria2")>>

UninstallAnyTLS ==
  <<S("certremove", "")>> \o RemoveSystemdService("anytls") \o
  <<S("rmetc", ""), S("rmrecord", ""), S("deluser", "anytls")>>

UninstallSteps(p) ==
  CASE p = "snell" -> UninstallSnell
    [] p = "singbox" -> UninstallSingbox
    [] p = "reality" -> UninstallReality
    [] p = "hysteria2" -> UninstallHysteria2
    [] p = "anytls" -> UninstallAnyTLS

\* the statements of UpdateX after the confirmation prompt, up to the fetch
\* and, after a successful fetch, to the end
UpdateSnell ==
  <<S("stop", "shadow-tls"), S("stop", "snell"),
    S("backup", "snell-server"), S("download", "snell-server"),
    S("saveversion", ""), S("start", "snell"), S("start", "shadow-tls"),
    S("rmbak", "snell-server")>>

\* faulty variant: the backup is deleted before the service is started
UpdateSingboxKernelRmBakFirst(u) ==
  <<S("stop", u), S("backup", "sing-box"), S("rmbin", "sing-box"),
    S("download", "sing-box"), S("saveversion", ""), S("rmbak", "sing-box"),
    S("start", u)>>

\* faulty variant: the old binary is not moved out of the way
UpdateSingboxKernelKeepsBinary(u) ==
  <<S("stop", u), S("download", "sing-box"), S("saveversion", ""),
    S("start", u), S("rmbak", "sing-box")>>

UpdateSingboxKernel(u) ==
  <<S("stop", u), S("backup", "sing-box"), S("rmbin", "sing-box"),
    S("download", "sing-box"), S("saveversion", ""), S("start", u),
    S("rmbak", "sing-box")>>

UpdateSingbox == UpdateSingboxKernel("sing-box")
UpdateReality == UpdateSingboxKernel("sing-box-reality")
UpdateHysteria2 == UpdateSingboxKernel("hysteria2")
UpdateAnyTLS == UpdateSingboxKernel("anytls")

UpdateSteps(p) ==
  CASE p = "snell" -> UpdateSnell
    [] p = "singbox" -> UpdateSingbox
    [] p = "reality" -> UpdateReality
    [] p = "hysteria2" -> UpdateHysteria2
    [] p = "anytls" -> UpdateAnyTLS

\* faulty variant: the rollback starts the service without moving the
\* backup back
RollbackWithoutRestore(p) ==
  IF p = "snell"
  THEN <<S("start", "snell"), S("start", "shadow-tls")>>
  ELSE <<S("start", SystemdName(p))>>

\* the statements of the `if err := downloadX(...); err != nil` branch
Rollback(p) ==
  IF p = "snell"
  THEN <<S("restore", "snell-server"), S("start", "snell"), S("start", "shadow-tls")>>
  ELSE <<S("restore", "sing-box"), S("start", SystemdName(p))>>

(* ------------------------------ helpers ------------------------------- *)
\* faulty variant: every protocol counts as installed
IsInstalledAlways(p) == TRUE

\* utils.FileExists(XProxyConfigPath), IsXInstalled()
IsInstalled(p) == record[p] # NoRecord

\* services.Service.IsInstalled: os.Stat(s.ConfigPath)
ServiceIsInstalled(p) == "config" \in etc[p]

\* faulty variant: a unit that is not running is reported as active
GetStatusAlwaysActive(p) ==
  IF ~ServiceIsInstalled(p) THEN "not_installed" ELSE "active"

\* services.Service.GetStatus
GetStatus(p) ==
  IF ~ServiceIsInstalled(p) THEN "not_installed"
  ELSE IF active[SystemdName(p)] THEN "active" ELSE "inactive"

\* faulty variant: a failed lookup yields no version
GetLatestVersionNoDefault(tag, defaultVersion) == tag

\* utils.GetLatestVersion(repo, defaultVersion) given the tag the remote answered
GetLatestVersion(tag, defaultVersion) ==
  IF tag # NoTag THEN tag ELSE defaultVersion

SingboxTags == {NoTag} \cup (DefaultSingboxVersion .. MaxSingboxTag)
ShadowTLSTags == {NoTag} \cup (DefaultShadowTLSVersion .. MaxShadowTLSTag)

\* faulty variant: the version comparison never matches
NeverUpToDate(currentVersion, latestVersion) == FALSE

\* UpdateX: `if currentVersion == latestVersion`
UpToDate(currentVersion, latestVersion) == currentVersion = latestVersion

\* what utils.DownloadFile(url, dest, 3) can end with: a nil error; an error
\* with no attempt having opened dest (connection or HTTP status error in
\* every attempt); an error after some attempt's os.Create(dest) (io.Copy
\* failed)
DownloadOutcomes == {"ok", "refused", "cut"}

\* utils.DownloadFile / downloadFileOnce: the content of dest afterwards
DownloadFile(before, fetched, out) ==
  CASE out = "ok" -> fetched
    [] out = "refused" -> before
    [] out = "cut" -> Partial

\* anytls.go checkSingboxVersion: major > 1 || (major == 1 && minor >= 12)
checkSingboxVersion(version) == version >= 12

\* IsSingboxShared(exclude): another protocol on the sing-box binary is installed
IsSingboxShared(p) ==
  \E q \in Prot \ {"snell", p} : IsInstalled(q)

\* a daemon can only come up when its unit, its binary and its config exist
Runnable(u) ==
  /\ unit[u]
  /\ bin[BinOfUnit(u)] \notin {Absent, Partial}
  /\ (UserOfUnit(u) = "root" \/ user[UserOfUnit(u)])
  /\ (u = "shadow-tls" \/ "config" \in etc[ProtOfUnit(u)])

Busy == op # "idle"
At(k) == Busy /\ steps # <<>> /\ Head(steps).k = k
Arg == Head(steps).x

\* the statement at the head of steps has been executed
Advance ==
  /\ steps' = Tail(steps)
  /\ trace' = Append(trace, Head(steps))
  /\ UNCHANGED <<op, prot, last, nops>>

\* the function returns: `return nil, err` / `return err` / `return nil`
Returned(o, p, res, why, tr, l) ==
  [op |-> o, p |-> p, res |-> res, why |-> why, trace |-> tr,
   ver |-> l.ver, cur |-> l.cur, slow |-> l.slow,
   failed |-> l.failed, preBin |-> l.preBin, preRec |-> l.preRec, again |-> l.again,
   attempts |-> l.attempts, preTls |-> l.preTls]

\* `return err` out of the statement at hand, the locals being l
ReturnErrorWith(why, l) ==
  /\ op' = "idle"
  /\ prot' = "none"
  /\ steps' = <<>>
  /\ loc' = NoLoc
  /\ trace' = <<>>
  /\ last' = Returned(op, prot, "error", why, Append(trace, Head(steps)), l)
  /\ UNCHANGED nops

ReturnError(why) == ReturnErrorWith(why, loc)


(* --------------------- starting a lifecycle operation ----------------- *)
\* what the operator may type at a (y/n) prompt
Answers == {"y", "Y", "n", ""}

\* faulty variant: everything but "n" counts as a yes
PromptConfirmDefaultYes(input) == input # "n"

\* utils.PromptConfirm: strings.ToLower(input) == "y"
PromptConfirm(input) == input \in {"y", "Y"}

\* InstallX, up to and including the `已安装，是否重新安装？` prompt
StartInstall(p) ==
  /\ op = "idle"
  /\ nops < MaxOps
  /\ nops' = nops + 1
  /\ \E input \in Answers :
       IF IsInstalled(p) /\ ~PromptConfirm(input)
       THEN /\ last' = Returned("install", p, "error", "cancelled", <<>>, NoLoc)
            /\ UNCHANGED <<op, prot, steps, loc, trace>>
       ELSE /\ op' = "install"
            /\ prot' = p
            /\ steps' = (IF IsInstalled(p) THEN UninstallSteps(p) ELSE <<>>)
                          \o InstallSteps(p)
            /\ loc' = [NoLoc EXCEPT !.affirmed =
                         IsInstalled(p) /\ input \in {"y", "Y"}]
            /\ trace' = <<>>
            /\ last' = NoLast
  /\ UNCHANGED <<fsVars, sdVars, healthVars>>
  /\ UNCHANGED call

\* UpdateX, up to and including the `确认更新？` prompt
StartUpdate(p) ==
  /\ op = "idle"
  /\ nops < MaxOps
  /\ nops' = nops + 1
  /\ \E tag \in SingboxTags, confirm \in BOOLEAN :
       LET currentVersion == record[p].version
           latestVersion == IF p = "snell" THEN DefaultSnellVersion
                            ELSE GetLatestVersion(tag, DefaultSingboxVersion)
           seen == [NoLoc EXCEPT !.ver = latestVersion, !.cur = currentVersion]
       IN  IF ~IsInstalled(p)
           THEN /\ last' = Returned("update", p, "error", "notinstalled", <<>>, NoLoc)
                /\ UNCHANGED <<op, prot, steps, loc, trace>>
           ELSE IF UpToDate(currentVersion, latestVersion)
           THEN /\ last' = Returned("update", p, "ok", "uptodate", <<>>, seen)
                /\ UNCHANGED <<op, prot, steps, loc, trace>>
           ELSE IF ~confirm
           THEN /\ last' = Returned("update", p, "ok", "declined", <<>>, seen)
                /\ UNCHANGED <<op, prot, steps, loc, trace>>
           ELSE /\ op' = "update"
                /\ prot' = p
                /\ steps' = UpdateSteps(p)
                /\ loc' = [NoLoc EXCEPT !.ver = latestVersion,
                                        !.cur = currentVersion,
                                        !.preBin = bin[BinOf(p)],
                                        !.preRec = record[p],
                                        !.tag = IF p = "snell" THEN NoTag
                                                ELSE tag]
                /\ trace' = <<>>
                /\ last' = NoLast
  /\ UNCHANGED <<fsVars, sdVars, healthVars>>
  /\ UNCHANGED call

\* ui.doUninstallService: the `确认卸载？` prompt, then UninstallX is called
StartUninstall(p) ==
  /\ op = "idle"
  /\ nops < MaxOps
  /\ nops' = nops + 1
  /\ \E input \in Answers :
       IF ~PromptConfirm(input)
       THEN /\ last' = Returned("doUninstallService", p, "none", "cancelled", <<>>,
                                 NoLoc)
            /\ UNCHANGED <<op, prot, steps, loc, trace>>
       ELSE /\ op' = "uninstall"
            /\ prot' = p
            /\ steps' = UninstallSteps(p)
            /\ loc' = [NoLoc EXCEPT !.again = (last.op = "uninstall" /\ last.p = p),
                                    !.affirmed = input \in {"y", "Y"}]
            /\ trace' = <<>>
            /\ last' = NoLast
  /\ UNCHANGED <<fsVars, sdVars, healthVars>>
  /\ UNCHANGED call

\* RenewHysteria2Cert / RenewAnyTLSCert is called, up to and including
\* `if !utils.FileExists(XProxyConfigPath)` and `if domain == ""`
StartRenew(p) ==
  /\ op = "idle"
  /\ nops < MaxOps
  /\ nops' = nops + 1
  /\ LET l == [NoLoc EXCEPT !.again = (last.op = "renew" /\ last.p = p
                                        /\ last.res = "ok"),
                            !.preTls = tls[p], !.preRec = record[p]]
     IN  IF ~IsInstalled(p) \/ record[p].domain = ""
         THEN /\ last' = Returned("renew", p, "error",
                                  IF ~IsInstalled(p) THEN "notinstalled"
                                  ELSE "nodomain", <<>>, l)
              /\ UNCHANGED <<op, prot, steps, loc, trace>>
         ELSE /\ op' = "renew"
              /\ prot' = p
              /\ steps' = RenewSteps(p)
              /\ loc' = l
              /\ trace' = <<>>
              /\ last' = NoLast
  /\ UNCHANGED <<fsVars, sdVars, healthVars>>
  /\ UNCHANGED call

\* ui.doRenewCert, choice p: utils.ServiceRestart(p) and nothing else
doRenewCert(p) ==
  /\ op = "idle"
  /\ nops < MaxOps
  /\ nops' = nops + 1
  /\ LET u == SystemdName(p)
     IN  \E up \in BOOLEAN :
           active' = [active EXCEPT ![u] =
                       IF unit[u] THEN up /\ Runnable(u) ELSE @]
  /\ last' = Returned("doRenewCert", p, "none", "", <<S("restart", SystemdName(p))>>,
                      [NoLoc EXCEPT !.preTls = tls[p]])
  /\ UNCHANGED <<op, prot, steps, loc, trace, fsVars, enabled, healthVars>>
  /\ UNCHANGED call

\* the function runs off its end: `return result, nil` / `return nil`, or the
\* `return fmt.Errorf("更新失败...")` that ends the rollback branch
Finish ==
  /\ Busy
  /\ steps = <<>>
  /\ last' = Returned(op, prot, IF loc.err = "" THEN "ok" ELSE "error",
                      loc.err, trace, loc)
  /\ op' = "idle"
  /\ prot' = "none"
  /\ loc' = NoLoc
  /\ trace' = <<>>
  /\ UNCHANGED <<steps, nops, fsVars, sdVars, healthVars>>
  /\ UNCHANGED call


(* ------------------------ statements of install ----------------------- *)
\* CheckDependencies, utils.GetServerIP, utils.DetectArch
Precheck ==
  /\ At("precheck")
  /\ \E f \in {"ok", "deps", "ip", "arch"} :
       IF f = "ok" THEN Advance /\ UNCHANGED loc ELSE ReturnError(f)
  /\ UNCHANGED <<fsVars, sdVars, healthVars>>
  /\ UNCHANGED call

\* utils.GetSnellLatestVersion / utils.GetLatestVersion, and for AnyTLS the
\* checkSingboxVersion test
Lookup ==
  /\ At("lookup")
  /\ \E t \in SingboxTags, s \in ShadowTLSTags :
       LET ver == IF prot = "snell" THEN DefaultSnellVersion
                  ELSE GetLatestVersion(t, DefaultSingboxVersion)
           stls == IF prot = "snell"
                   THEN GetLatestVersion(s, DefaultShadowTLSVersion) ELSE 0
       IN  IF prot = "anytls" /\ ~checkSingboxVersion(ver)
           THEN ReturnError("version")
           ELSE Advance /\ loc' = [loc EXCEPT !.ver = ver, !.stls = stls,
                                   !.tag = IF prot = "snell" THEN s ELSE t]
  /\ UNCHANGED <<fsVars, sdVars, healthVars>>
  /\ UNCHANGED call

\* downloadSnell / downloadShadowTLS / downloadSingbox(version, arch), and in
\* UpdateX the branch taken when it returns an error
Download ==
  /\ At("download")
  /\ LET b == Arg
         v == IF b = "shadow-tls" THEN loc.stls ELSE loc.ver
     IN  IF bin[b] # Absent
         THEN Advance /\ UNCHANGED <<loc, bin>>
         ELSE \E out \in DownloadOutcomes :
                \* downloadShadowTLS downloads onto the binary path itself,
                \* the others into /tmp and move the unpacked binary
                LET left == IF b = "shadow-tls"
                            THEN DownloadFile(bin[b], v, out) ELSE bin[b]
                IN  IF out = "ok"
                    THEN /\ bin' = [bin EXCEPT ![b] = v]
                         /\ Advance
                         /\ UNCHANGED loc
                    ELSE IF op = "update"
                    THEN /\ steps' = Rollback(prot)
                         /\ trace' = Append(trace, S("fetchfailed", b))
                         /\ loc' = [loc EXCEPT !.err = "fetch"]
                         /\ bin' = [bin EXCEPT ![b] = left]
                         /\ UNCHANGED <<op, prot, last, nops>>
                    ELSE /\ ReturnError("download")
                         /\ bin' = [bin EXCEPT ![b] = left]
  /\ UNCHANGED <<record, bak, etc, unit, user, sdVars, certVars, healthVars>>
  /\ UNCHANGED call

\* faulty variant: an empty line is answered with a domain of the program's
PromptInputSubstitutes(input, defaultValue) ==
  IF input = "" THEN "localhost" ELSE input

\* utils.PromptInput(prompt, defaultValue) when the operator types input
PromptInput(input, defaultValue) ==
  IF input = "" THEN defaultValue ELSE input

\* utils.PromptInput("请输入域名", "") and the `domain == ""` test
Domain ==
  /\ At("domain")
  /\ \E input \in {"", "example.org"} :
       LET domain == PromptInput(input, "")
       IN  IF domain = "" THEN ReturnError("domain")
           ELSE Advance /\ loc' = [loc EXCEPT !.domain = domain]
  /\ UNCHANGED <<fsVars, sdVars, healthVars>>
  /\ UNCHANGED call

\* faulty variant: the webroot mode is never tried
installAcmeAndCertNoFallback(standalone, webroot) ==
  <<[mode |-> "standalone", ok |-> standalone]>>

\* the `acme.sh --issue` runs of installAcmeAndCert, in order, when the
\* standalone / webroot validation would answer as given
installAcmeAndCert(standalone, webroot) ==
  IF standalone
  THEN <<[mode |-> "standalone", ok |-> TRUE]>>
  ELSE <<[mode |-> "standalone", ok |-> FALSE],
         [mode |-> "webroot", ok |-> webroot]>>

\* installAcmeAndCert(domain): acme.sh is installed when it is missing, then
\* the certificate is requested
Issue ==
  /\ At("issue")
  /\ \E installed, standalone, webroot \in BOOLEAN :
       LET tried == IF acmeSh \/ installed
                    THEN installAcmeAndCert(standalone, webroot)
                    ELSE <<>>
           l == [loc EXCEPT !.attempts = tried]
       IN  /\ acmeSh' = (acmeSh \/ installed)
           /\ IF tried # <<>> /\ tried[Len(tried)].ok
              THEN /\ issued' = issued + 1
                   /\ acme' = issued + 1
                   /\ Advance
                   /\ loc' = l
              ELSE /\ ReturnErrorWith("issue", l)
                   /\ UNCHANGED <<issued, acme>>
  /\ UNCHANGED <<record, bin, bak, etc, unit, user, tls, sdVars, healthVars>>
  /\ UNCHANGED call

\* os.MkdirAll(XConfigDir, 0755)
Mkdir ==
  /\ At("mkdir")
  /\ etc' = [etc EXCEPT ![prot] = @ \cup {"dir"}]
  /\ Advance
  /\ UNCHANGED <<loc, record, bin, bak, unit, user, sdVars, certVars, healthVars>>
  /\ UNCHANGED call

\* how a run of `acme.sh --install-cert` can end: both files written and the
\* reload command run, or a failure before the first or between the two writes
InstallCertOutcomes == {"ok", "none", "partial"}

\* the key and certificate file of p after `acme.sh --install-cert` ended
\* with out. The reload command is `chown U:G K C && chmod 600 K &&
\* systemctl restart S 2>/dev/null || true`, and on success the function
\* goes on with os.Chmod(K, 0600) and os.Chmod(C, 0644); it has no chown of
\* its own
installCert(p, out) ==
  CASE out = "none" -> tls[p]
    [] out = "partial" ->
         [tls[p] EXCEPT !.key = acme,
                        !.keyMode = IF @ = "none" THEN "0600" ELSE @]
    [] out = "ok" ->
         [key |-> acme, crt |-> acme,
          owner |-> IF user[UserOfUnit(SystemdName(p))]
                    THEN UserOfUnit(SystemdName(p)) ELSE tls[p].owner,
          keyMode |-> "0600", crtMode |-> "0644"]

\* installCertToHysteria2 / installCertToAnyTLS
Cert ==
  /\ At("cert")
  /\ \E out \in InstallCertOutcomes, up \in BOOLEAN :
       LET u == SystemdName(prot)
       IN  /\ tls' = [tls EXCEPT ![prot] = installCert(prot, out)]
           /\ IF out = "ok"
              THEN /\ etc' = [etc EXCEPT ![prot] = @ \cup {"cert"}]
                   /\ active' = [active EXCEPT ![u] =
                                   IF user[UserOfUnit(u)] /\ unit[u]
                                   THEN up /\ Runnable(u) ELSE @]
                   /\ Advance
                   /\ UNCHANGED loc
              ELSE /\ ReturnError("cert")
                   /\ UNCHANGED <<etc, active>>
  /\ UNCHANGED <<record, bin, bak, unit, user, enabled, acmeSh, acme, issued,
                 healthVars>>
  /\ UNCHANGED call

\* createSnellConfig / createSingboxConfig / createRealityConfig /
\* createHysteria2SingboxConfig / createAnyTLSSingboxConfig: the file is
\* written, and for the last two `sing-box check` then judges it
Config ==
  /\ At("config")
  /\ etc' = [etc EXCEPT ![prot] = @ \cup {"dir", "config"}]
  /\ IF prot \in TLSProt
     THEN \E ok \in BOOLEAN :
            IF ok /\ bin["sing-box"] # Absent
            THEN Advance /\ loc' = [loc EXCEPT !.checked = TRUE]
            ELSE ReturnError("check")
     ELSE Advance /\ UNCHANGED loc
  /\ UNCHANGED <<record, bin, bak, unit, user, sdVars, certVars, healthVars>>
  /\ UNCHANGED call

\* utils.CreateSystemUser(name)
User ==
  /\ At("user")
  /\ user' = [user EXCEPT ![Arg] = TRUE]
  /\ Advance
  /\ UNCHANGED <<loc, record, bin, bak, etc, unit, sdVars, certVars, healthVars>>
  /\ UNCHANGED call

\* CreateSystemdService(cfg): the unit file is written, then daemon-reload
Unit ==
  /\ At("unit")
  /\ unit' = [unit EXCEPT ![Arg] = TRUE]
  /\ \E ok \in BOOLEAN :
       IF ok THEN Advance /\ UNCHANGED loc ELSE ReturnError("unit")
  /\ UNCHANGED <<record, bin, bak, etc, user, sdVars, certVars, healthVars>>
  /\ UNCHANGED call

\* utils.ServiceEnable(name)
Enable ==
  /\ At("enable")
  /\ enabled' = [enabled EXCEPT ![Arg] = unit[Arg]]
  /\ Advance
  /\ UNCHANGED <<loc, fsVars, active, healthVars>>
  /\ UNCHANGED call

\* utils.ServiceStart(name); its error is discarded
Start ==
  /\ At("start")
  /\ IF Runnable(Arg)
     THEN \E up \in BOOLEAN : active' = [active EXCEPT ![Arg] = @ \/ up]
     ELSE UNCHANGED active
  /\ Advance
  /\ UNCHANGED <<loc, fsVars, enabled, healthVars>>
  /\ UNCHANGED call

\* the maxWait InstallX passes to utils.VerifyServiceStarted
MaxWait(p) == IF p \in TLSProt THEN VerifyWaitTLS ELSE VerifyWait

\* faulty variant: a poll that saw no active service fails every install
VerifyFailureAlwaysFatal(p) == TRUE

\* `if !utils.VerifyServiceStarted(...)`: return an error (Snell, Shadow-TLS,
\* Sing-box, Reality) or only warn (Hysteria2, AnyTLS)
VerifyFailureIsFatal(p) == p \notin TLSProt

\* one `systemctl is-active` query of utils.VerifyServiceStarted(name,
\* maxWait), and what InstallX does with the poll's result
Verify ==
  /\ At("verify")
  /\ IF active[Arg]
     THEN Advance /\ loc' = [loc EXCEPT !.polls = 0]
     ELSE IF loc.polls + 1 < MaxWait(prot)
     THEN /\ loc' = [loc EXCEPT !.polls = @ + 1]
          /\ UNCHANGED <<op, prot, steps, trace, last, nops>>
     ELSE IF VerifyFailureIsFatal(prot)
     THEN ReturnError("verify")
     ELSE Advance /\ loc' = [loc EXCEPT !.polls = 0, !.slow = TRUE]
  /\ UNCHANGED <<fsVars, sdVars, healthVars>>
  /\ UNCHANGED call

\* saveSnellConfig / saveSingboxConfig / saveRealityConfig /
\* saveHysteria2Config / saveAnyTLSConfig
Save ==
  /\ At("save")
  /\ record' = [record EXCEPT ![prot] =
                  [version |-> loc.ver, stls |-> loc.stls, domain |-> loc.domain,
                   certType |-> IF prot \in TLSProt THEN "letsencrypt" ELSE "none"]]
  /\ Advance
  /\ UNCHANGED <<loc, bin, bak, etc, unit, user, sdVars, certVars, healthVars>>
  /\ UNCHANGED call


(* ------------------- statements of certificate renewal --------------- *)
\* `acme.sh --renew -d domain --ecc --force` and its `err != nil` branch
Renew ==
  /\ At("renew")
  /\ \E ok \in BOOLEAN :
       IF ok /\ acmeSh /\ acme # NoCert
       THEN /\ issued' = issued + 1
            /\ acme' = issued + 1
            /\ Advance
            /\ UNCHANGED loc
       ELSE /\ ReturnError("renew")
            /\ UNCHANGED <<issued, acme>>
  /\ UNCHANGED <<record, bin, bak, etc, unit, user, acmeSh, tls, sdVars,
                 healthVars>>
  /\ UNCHANGED call

\* utils.ServiceRestart(name); its error is discarded
ServiceRestart ==
  /\ At("restart")
  /\ \E up \in BOOLEAN :
       active' = [active EXCEPT ![Arg] =
                   IF unit[Arg] THEN up /\ Runnable(Arg) ELSE @]
  /\ Advance
  /\ UNCHANGED <<loc, fsVars, enabled, healthVars>>
  /\ UNCHANGED call

(* ----------------------- statements of uninstall ---------------------- *)
\* `if certType == "letsencrypt" && domain != ""` and the `是否删除证书？`
\* prompt of UninstallHysteria2 / UninstallAnyTLS (acme.sh --remove)
CertRemove ==
  /\ At("certremove")
  /\ \E confirm \in BOOLEAN :
       acme' = IF confirm /\ acmeSh /\ record[prot].certType = "letsencrypt"
                  /\ record[prot].domain # ""
               THEN NoCert ELSE acme
  /\ Advance
  /\ UNCHANGED <<loc, record, bin, bak, etc, unit, user, acmeSh, issued, tls,
                 sdVars, healthVars>>
  /\ UNCHANGED call

\* utils.ServiceStop(name)
Stop ==
  /\ At("stop")
  /\ active' = [active EXCEPT ![Arg] = FALSE]
  /\ Advance
  /\ UNCHANGED <<loc, fsVars, enabled, healthVars>>
  /\ UNCHANGED call

\* utils.ServiceDisable(name)
Disable ==
  /\ At("disable")
  /\ enabled' = [enabled EXCEPT ![Arg] = FALSE]
  /\ Advance
  /\ UNCHANGED <<loc, fsVars, active, healthVars>>
  /\ UNCHANGED call

\* `if utils.FileExists(servicePath) { utils.RemoveFile(servicePath) }`
RmUnit ==
  /\ At("rmunit")
  /\ unit' = [unit EXCEPT ![Arg] = FALSE]
  /\ loc' = [loc EXCEPT !.hadUnit = unit[Arg]]
  /\ Advance
  /\ UNCHANGED <<record, bin, bak, etc, user, sdVars, certVars, healthVars>>
  /\ UNCHANGED call

\* `return utils.DaemonReload()`, which may fail; UninstallX discards the
\* result of RemoveSystemdService
Reload ==
  /\ At("reload")
  /\ Advance
  /\ \E ok \in BOOLEAN :
       loc' = [loc EXCEPT !.failed = @ \/ ~ok,
                          !.removed = IF ok THEN "nil" ELSE "error"]
  /\ UNCHANGED <<fsVars, sdVars, healthVars>>
  /\ UNCHANGED call

\* os.Remove(XBinaryPath)
RmBin ==
  /\ At("rmbin")
  /\ bin' = [bin EXCEPT ![Arg] = Absent]
  /\ Advance
  /\ UNCHANGED <<loc, record, bak, etc, unit, user, sdVars, certVars, healthVars>>
  /\ UNCHANGED call

\* os.RemoveAll(XConfigDir)
RmEtc ==
  /\ At("rmetc")
  /\ etc' = [etc EXCEPT ![prot] = {}]
  /\ tls' = [q \in TLSProt |-> IF q = prot THEN NoTLS ELSE tls[q]]
  /\ Advance
  /\ UNCHANGED <<loc, record, bin, bak, unit, user, acmeSh, acme, issued,
                 sdVars, healthVars>>
  /\ UNCHANGED call

\* faulty variant: the Installation record is left in place
RmRecordKept ==
  /\ At("rmrecord")
  /\ Advance
  /\ UNCHANGED <<loc, fsVars, sdVars, healthVars>>
  /\ UNCHANGED call

\* os.Remove(XProxyConfigPath)
RmRecord ==
  /\ At("rmrecord")
  /\ record' = [record EXCEPT ![prot] = NoRecord]
  /\ Advance
  /\ UNCHANGED <<loc, bin, bak, etc, unit, user, sdVars, certVars, healthVars>>
  /\ UNCHANGED call

\* UninstallSingbox: `if !IsSingboxShared(SingboxProxyConfigPath)`,
\* UninstallReality: `if !utils.FileExists(SingboxProxyConfigPath)`; the
\* branch removes the sing-box binary and the sing-box user
RmShared ==
  /\ At("rmshared")
  /\ LET keep == IF prot = "singbox" THEN IsSingboxShared(prot)
                 ELSE IsInstalled("singbox")
     IN  steps' = (IF keep THEN <<>>
                   ELSE <<S("rmbin", "sing-box"), S("deluser", "sing-box")>>)
                  \o Tail(steps)
  /\ trace' = Append(trace, Head(steps))
  /\ UNCHANGED <<op, prot, last, nops, loc, fsVars, sdVars, healthVars>>
  /\ UNCHANGED call

\* utils.DeleteSystemUser(name)
DelUser ==
  /\ At("deluser")
  /\ user' = [user EXCEPT ![Arg] = FALSE]
  /\ Advance
  /\ UNCHANGED <<loc, record, bin, bak, etc, unit, sdVars, certVars, healthVars>>
  /\ UNCHANGED call

(* ------------------------ statements of update ------------------------ *)
\* os.Rename(XBinaryPath, XBinaryPath+".bak")
Backup ==
  /\ At("backup")
  /\ IF bin[Arg] # Absent
     THEN /\ bak' = [bak EXCEPT ![Arg] = bin[Arg]]
          /\ bin' = [bin EXCEPT ![Arg] = Absent]
     ELSE UNCHANGED <<bin, bak>>
  /\ Advance
  /\ UNCHANGED <<loc, record, etc, unit, user, sdVars, certVars, healthVars>>
  /\ UNCHANGED call

\* os.Rename(XBinaryPath+".bak", XBinaryPath)
Restore ==
  /\ At("restore")
  /\ IF bak[Arg] # Absent
     THEN /\ bin' = [bin EXCEPT ![Arg] = bak[Arg]]
          /\ bak' = [bak EXCEPT ![Arg] = Absent]
     ELSE UNCHANGED <<bin, bak>>
  /\ Advance
  /\ UNCHANGED <<loc, record, etc, unit, user, sdVars, certVars, healthVars>>
  /\ UNCHANGED call

\* `config["X_VERSION"] = latestVersion; SaveConfigFile(path, config)`
SaveVersion ==
  /\ At("saveversion")
  /\ record' = [record EXCEPT ![prot] = [loc.preRec EXCEPT !.version = loc.ver]]
  /\ Advance
  /\ UNCHANGED <<loc, bin, bak, etc, unit, user, sdVars, certVars, healthVars>>
  /\ UNCHANGED call

\* os.Remove(XBinaryPath + ".bak")
RmBak ==
  /\ At("rmbak")
  /\ bak' = [bak EXCEPT ![Arg] = Absent]
  /\ Advance
  /\ UNCHANGED <<loc, record, bin, etc, unit, user, sdVars, certVars, healthVars>>
  /\ UNCHANGED call

(* ---------------------------- health.Check ---------------------------- *)
Line(level, p) == [level |-> level, p |-> p]

\* RunDaemon: `case <-ticker.C: _ = Check()`; Check up to the loop
TickStart ==
  /\ hpc = "idle"
  /\ ticks < MaxTicks
  /\ ticks' = ticks + 1
  /\ hpc' = "loop"
  /\ todo' = Prot
  /\ hasError' = FALSE
  /\ UNCHANGED <<hcur, hlog, tickResult, fsVars, sdVars, orchVars>>
  /\ UNCHANGED call

\* one iteration of `for name, svc := range services.Services`, up to the
\* call of svc.Restart()
Examine(p) ==
  /\ hpc = "loop"
  /\ p \in todo
  /\ todo' = todo \ {p}
  /\ IF ServiceIsInstalled(p) /\ GetStatus(p) # "active"
     THEN /\ hlog' = Append(hlog, Line("WARNING", p))
          /\ hpc' = "restart"
          /\ hcur' = p
     ELSE UNCHANGED <<hlog, hpc, hcur>>
  /\ UNCHANGED <<hasError, ticks, tickResult, fsVars, sdVars, orchVars>>
  /\ UNCHANGED call

\* faulty variant: the restart writes the unit file when it is missing
RestartCreatesUnit ==
  /\ hpc = "restart"
  /\ LET u == SystemdName(hcur)
     IN  \E ok \in BOOLEAN :
           /\ unit' = [unit EXCEPT ![u] = TRUE]
           /\ IF ok /\ Runnable(u)
              THEN /\ active' = [active EXCEPT ![u] = TRUE]
                   /\ hpc' = "settle"
                   /\ UNCHANGED <<hlog, hasError, hcur>>
              ELSE /\ active' = [active EXCEPT ![u] = IF unit[u] THEN FALSE ELSE @]
                   /\ hlog' = Append(hlog, Line("ERROR", hcur))
                   /\ hasError' = TRUE
                   /\ hpc' = "loop"
                   /\ hcur' = "none"
  /\ UNCHANGED <<todo, ticks, tickResult, enabled, record, bin, bak, etc, user,
                 certVars, orchVars>>
  /\ UNCHANGED call

\* svc.Restart() and the `err != nil` branch
Restart ==
  /\ hpc = "restart"
  /\ LET u == SystemdName(hcur)
     IN  \E ok \in BOOLEAN :
           IF ok /\ Runnable(u)
           THEN /\ active' = [active EXCEPT ![u] = TRUE]
                /\ hpc' = "settle"
                /\ UNCHANGED <<hlog, hasError, hcur>>
           ELSE /\ active' = [active EXCEPT ![u] = IF unit[u] THEN FALSE ELSE @]
                /\ hlog' = Append(hlog, Line("ERROR", hcur))
                /\ hasError' = TRUE
                /\ hpc' = "loop"
                /\ hcur' = "none"
  /\ UNCHANGED <<todo, ticks, tickResult, enabled, fsVars, orchVars>>
  /\ UNCHANGED call

\* faulty variant: the re-query result is ignored and the restart is
\* always reported as failed
RequeryAlwaysError ==
  /\ hpc = "settle"
  /\ hlog' = Append(hlog, Line("ERROR", hcur))
  /\ hasError' = TRUE
  /\ hpc' = "loop"
  /\ hcur' = "none"
  /\ UNCHANGED <<todo, ticks, tickResult, fsVars, sdVars, orchVars>>
  /\ UNCHANGED call

\* after time.Sleep(2s): newStatus := svc.GetStatus() and both branches
Requery ==
  /\ hpc = "settle"
  /\ IF GetStatus(hcur) = "active"
     THEN /\ hlog' = Append(hlog, Line("INFO", hcur))
          /\ UNCHANGED hasError
     ELSE /\ hlog' = Append(hlog, Line("ERROR", hcur))
          /\ hasError' = TRUE
  /\ hpc' = "loop"
  /\ hcur' = "none"
  /\ UNCHANGED <<todo, ticks, tickResult, fsVars, sdVars, orchVars>>
  /\ UNCHANGED call

\* faulty variant: Check returns nil whatever hasError says
TickEndAlwaysOk ==
  /\ hpc = "loop"
  /\ todo = {}
  /\ tickResult' = "ok"
  /\ hpc' = "idle"
  /\ UNCHANGED <<todo, hcur, hasError, hlog, ticks, fsVars, sdVars, orchVars>>
  /\ UNCHANGED call

\* the loop is over: `if hasError { return fmt.Errorf(...) }; return nil`
TickEnd ==
  /\ hpc = "loop"
  /\ todo = {}
  /\ tickResult' = IF hasError THEN "failed" ELSE "ok"
  /\ hpc' = "idle"
  /\ UNCHANGED <<todo, hcur, hasError, hlog, ticks, fsVars, sdVars, orchVars>>
  /\ UNCHANGED call

(* ----------------------------- environment ---------------------------- *)
\* a daemon exits, or the operator stops it
ServiceFails(u) ==
  /\ active[u]
  /\ active' = [active EXCEPT ![u] = FALSE]
  /\ UNCHANGED <<enabled, fsVars, orchVars, healthVars>>
  /\ UNCHANGED call

OrchestratorSteps ==
  \/ Precheck \/ Lookup \/ Download \/ Domain \/ Issue \/ Mkdir \/ Cert
  \/ Config \/ User \/ Unit \/ Enable \/ Start \/ Verify \/ Save
  \/ CertRemove \/ Stop \/ Disable \/ RmUnit \/ Reload \/ RmBin \/ RmEtc
  \/ RmRecord \/ RmShared \/ DelUser
  \/ Backup \/ Restore \/ SaveVersion \/ RmBak
  \/ Renew \/ ServiceRestart
  \/ Finish

(* One operator at the menu, no health daemon: operations run one after     *)
(* the other, daemons may exit at any time.                                 *)
Next ==
  \/ \E p \in Prot : StartInstall(p)
  \/ \E p \in Prot : StartUpdate(p)
  \/ \E p \in Prot : StartUninstall(p)
  \/ \E p \in TLSProt : StartRenew(p)
  \/ \E p \in TLSProt : doRenewCert(p)
  \/ OrchestratorSteps
  \/ \E u \in Units : ServiceFails(u)

Spec == Init /\ [][Next]_vars

(* The same with `proxy-manager health --daemon` running beside the menu.   *)
(* Its steps interleave freely with the operation's statements; the         *)
(* operator works on the protocols of ConcProt.                             *)
ConcProt == {"singbox", "hysteria2"}

NextConc ==
  \/ /\ \/ \E p \in ConcProt : StartInstall(p)
        \/ \E p \in ConcProt : StartUpdate(p)
        \/ \E p \in ConcProt : StartUninstall(p)
        \/ \E p \in ConcProt \cap TLSProt : StartRenew(p)
        \/ TickStart
     /\ nops' + ticks' <= MaxConcCalls
  \/ OrchestratorSteps
  \/ \E p \in Prot : Examine(p)
  \/ Restart
  \/ Requery
  \/ TickEnd
  \/ \E u \in Units : ServiceFails(u)

ConcSpec == Init /\ [][NextConc]_vars

(* The health daemon beside an operator who installs and uninstalls Snell,  *)
(* the protocol whose install creates two units.                            *)
NextSnell ==
  \/ /\ \/ StartInstall("snell")
        \/ StartUninstall("snell")
        \/ TickStart
     /\ nops' + ticks' <= MaxConcCalls
  \/ Precheck \/ Lookup \/ Download \/ Config \/ User \/ Unit \/ Enable
  \/ Start \/ Verify \/ Save
  \/ Stop \/ Disable \/ RmUnit \/ Reload \/ RmBin \/ RmEtc \/ RmRecord
  \/ DelUser \/ Finish
  \/ \E p \in Prot : Examine(p)
  \/ Restart
  \/ Requery
  \/ TickEnd
  \/ \E u \in Units : ServiceFails(u)

SnellSpec == Init /\ [][NextSnell]_vars

(* -------------------- utils.DownloadFile, on its own ------------------ *)
\* how one downloadFileOnce can end: nil, or the error of client.Get, of a
\* status other than 200, of os.Create, of io.Copy
OnceResults == {"nil", "dial", "HTTP 404", "HTTP 503", "create", "copy"}

\* faulty variant: a status other than 200 ends the loop at once
DownloadFileAttemptFatalStatus(c, r) ==
  [c EXCEPT !.tried = Append(@, r),
            !.i = c.i + 1,
            !.lastErr = IF r = "nil" THEN @ ELSE r,
            !.ret = IF r = "nil" THEN "nil"
                    ELSE IF c.i + 1 < c.retries /\ r \notin {"HTTP 404", "HTTP 503"}
                         THEN "running" ELSE "error"]

\* one round of the loop of DownloadFile in which downloadFileOnce ends
\* with r, and the `return fmt.Errorf(...)` behind the loop when this was
\* the last round
DownloadFileAttempt(c, r) ==
  [c EXCEPT !.tried = Append(@, r),
            !.i = c.i + 1,
            !.lastErr = IF r = "nil" THEN @ ELSE r,
            !.ret = IF r = "nil" THEN "nil"
                    ELSE IF c.i + 1 < c.retries THEN "running" ELSE "error"]

DownloadInit ==
  /\ FreshHost
  /\ \E n \in 1..MaxRetries :
       call = [fn |-> "DownloadFile", retries |-> n, i |-> 0, tried |-> <<>>,
               lastErr |-> "", ret |-> "running"]

DownloadFileStep ==
  /\ call.ret = "running"
  /\ call.i < call.retries
  /\ \E r \in OnceResults : call' = DownloadFileAttempt(call, r)
  /\ UNCHANGED <<fsVars, sdVars, orchVars, healthVars>>

DownloadSpec ==
  DownloadInit /\ [][DownloadFileStep]_vars /\ WF_vars(DownloadFileStep)

(* -------------------- utils.ExtractTarGz, on its own ------------------ *)
\* filepath.Join(dest, name) for a rooted dest, both given as their
\* segments: the two are concatenated and the result is cleaned, "." dropped
\* and ".." taking the segment before it away (at the root, nothing)
Join(dest, name) ==
  LET p == dest \o name
      f[k \in 0..Len(p)] ==
        IF k = 0 THEN <<>>
        ELSE CASE p[k] = "." -> f[k-1]
               [] p[k] = ".." -> IF f[k-1] = <<>> THEN <<>>
                                 ELSE SubSeq(f[k-1], 1, Len(f[k-1]) - 1)
               [] OTHER -> Append(f[k-1], p[k])
  IN  f[Len(p)]

\* the headers an archive can hold: a name of up to MaxSegments segments
\* and a type flag (directory, regular file, or one the switch passes over)
TarHeaders ==
  [Name : UNION {[1..n -> {"bin", ".", ".."}] : n \in 1..MaxSegments},
   Typeflag : {"TypeDir", "TypeReg", "TypeSymlink"}]

ExtractInit ==
  /\ FreshHost
  /\ \E n \in 0..MaxEntries : \E ar \in [1..n -> TarHeaders] :
       call = [fn |-> "ExtractTarGz", dest |-> <<"tmp">>, tar |-> ar,
               next |-> 1, written |-> {}, ret |-> "running"]

\* one round of the `for` of ExtractTarGz: tr.Next() and the switch on the
\* type flag. MkdirAll and Create may fail.
ExtractTarGzStep ==
  /\ call.ret = "running"
  /\ \E ok \in BOOLEAN :
       IF call.next > Len(call.tar)
       THEN call' = [call EXCEPT !.ret = "nil"]
       ELSE LET header == call.tar[call.next]
                target == Join(call.dest, header.Name)
            IN  IF ok /\ header.Typeflag \in {"TypeDir", "TypeReg"}
                THEN call' = [call EXCEPT !.written = @ \cup {target},
                                          !.next = @ + 1]
                ELSE IF header.Typeflag \in {"TypeDir", "TypeReg"}
                     THEN call' = [call EXCEPT !.ret = "error"]
                     ELSE call' = [call EXCEPT !.next = @ + 1]
  /\ UNCHANGED <<fsVars, sdVars, orchVars, healthVars>>

ExtractSpec == ExtractInit /\ [][ExtractTarGzStep]_vars

(* ------------- the record file: SaveConfigFile, ParseConfigFile ------- *)
(* A string is the sequence of its characters, a file the sequence of its  *)
(* lines (what strings.Split(content, "\n") gives).                         *)
\* strings.TrimSpace(line)
TrimSpace(line) ==
  LET ink == {i \in DOMAIN line : line[i] # " "}
  IN  IF ink = {} THEN <<>>
      ELSE SubSeq(line, CHOOSE i \in ink : \A j \in ink : i <= j,
                        CHOOSE i \in ink : \A j \in ink : i >= j)

\* faulty variant: strings.Split instead of strings.SplitN(line, "=", 2)
ParseLineSplitAll(line) ==
  LET t == TrimSpace(line)
      eq == {i \in DOMAIN t : t[i] = "="}
  IN  IF t = <<>> \/ t[1] = "#" \/ Cardinality(eq) # 1 THEN <<>>
      ELSE LET i == CHOOSE i \in eq : TRUE
           IN  <<SubSeq(t, 1, i - 1), SubSeq(t, i + 1, Len(t))>>

\* the body of the loop of ParseConfigFile: <<key, value>> for a line that
\* sets one, <<>> for a line that is passed over
ParseLine(line) ==
  LET t == TrimSpace(line)
      eq == {i \in DOMAIN t : t[i] = "="}
  IN  IF t = <<>> \/ t[1] = "#" \/ eq = {} THEN <<>>
      ELSE LET i == CHOOSE i \in eq : \A j \in eq : i <= j
           IN  <<SubSeq(t, 1, i - 1), SubSeq(t, i + 1, Len(t))>>

\* ParseConfigFile: a later line with the same key overrides an earlier one
ParseConfigFile(file) ==
  LET set == {i \in DOMAIN file : ParseLine(file[i]) # <<>>}
      line(k) == CHOOSE i \in set :
                   /\ ParseLine(file[i])[1] = k
                   /\ \A j \in set : ParseLine(file[j])[1] = k => j <= i
  IN  [k \in {ParseLine(file[i])[1] : i \in set} |->
         ParseLine(file[line(k)])[2]]

\* the orders in which `for k, v := range config` can visit the keys
Orders(config) ==
  {o \in [1..Cardinality(DOMAIN config) -> DOMAIN config] :
     \A i, j \in DOMAIN o : o[i] = o[j] => i = j}

\* faulty variant: only the keys the program knows are written
SaveConfigFileKnownKeys(config, order) ==
  [i \in 1..(Len(order) + 1) |->
     IF i <= Len(order) /\ order[i] \in {<<"V">>, <<"P">>}
     THEN order[i] \o <<"=">> \o config[order[i]]
     ELSE <<>>]

\* SaveConfigFile: the lines k=v in the order the map was visited, joined
\* by "\n" and ended by "\n" (which leaves an empty last line)
SaveConfigFile(config, order) ==
  [i \in 1..(Len(order) + 1) |->
     IF i <= Len(order) THEN order[i] \o <<"=">> \o config[order[i]]
     ELSE <<>>]

\* os.WriteFile(path, data, perm): perm is the mode of a file it creates
WriteFile(mode, perm) == IF mode = "none" THEN perm ELSE mode

\* the values the program writes: tokens without white space such as tags,
\* ports, addresses and base64 secrets, which may hold and end in "="
Values == UNION {[1..n -> {"a", "="}] : n \in 0..MaxValueLen}

\* lines an operator may add to a record file by hand
EditLines ==
  {<<>>, <<" ">>, <<"#", "X", "=", "a">>, <<"X", "=", "a">>,
   <<" ", "X", "=", "a", " ">>, <<"X">>}

RecordInit ==
  /\ FreshHost
  /\ \E m \in [{<<"V">>, <<"P">>} -> Values] :
       call = [fn |-> "SaveConfigFile", m |-> m, file |-> <<>>, mode |-> "none",
               pc |-> "install", edits |-> 0, updates |-> 0]

\* saveXConfig at the end of InstallX
SaveRecord ==
  /\ call.pc = "install"
  /\ \E order \in Orders(call.m) :
       call' = [call EXCEPT !.file = SaveConfigFile(call.m, order),
                            !.mode = WriteFile(call.mode, "0600"),
                            !.pc = "saved"]
  /\ UNCHANGED <<fsVars, sdVars, orchVars, healthVars>>

\* the operator adds a line to the record file
EditRecord ==
  /\ call.pc = "saved"
  /\ call.edits < MaxEdits
  /\ \E l \in EditLines, i \in 0..Len(call.file) :
       call' = [call EXCEPT !.file = SubSeq(call.file, 1, i) \o <<l>> \o
                                       SubSeq(call.file, i + 1, Len(call.file)),
                            !.edits = @ + 1]
  /\ UNCHANGED <<fsVars, sdVars, orchVars, healthVars>>

\* UpdateX: config := ParseConfigFile(path); config[version key] =
\* latestVersion; SaveConfigFile(path, config)
UpdateRecord ==
  /\ call.pc = "saved"
  /\ call.updates < MaxEdits
  /\ \E latestVersion \in {<<"a">>, <<"b">>} :
       LET parsed == ParseConfigFile(call.file)
           config == [k \in DOMAIN parsed \cup {<<"V">>} |->
                        IF k = <<"V">> THEN latestVersion ELSE parsed[k]]
       IN  \E order \in Orders(config) :
             call' = [call EXCEPT !.file = SaveConfigFile(config, order),
                                  !.mode = WriteFile(call.mode, "0600"),
                                  !.updates = @ + 1]
  /\ UNCHANGED <<fsVars, sdVars, orchVars, healthVars>>

RecordSpec ==
  RecordInit /\ [][SaveRecord \/ EditRecord \/ UpdateRecord]_vars

(* ------------------------------- claims ------------------------------- *)
\* statement k occurs in the list of executed statements tr
Has(tr, k) == \E i \in DOMAIN tr : tr[i].k = k

\* in tr every statement b comes after some statement a
Follows(tr, a, b) ==
  \A j \in DOMAIN tr : tr[j].k = b => \E i \in 1..(j - 1) : tr[i].k = a

\* C1: when the fetch of the new binary fails during update(P), then at the
\* return of the error the original binary is back at the primary path, the
\* .bak sibling is gone, the service was started again after the failure and
\* P's Installation record is what it was before the call.
C1_FetchFailureRollsBack ==
  (last.op = "update" /\ Has(last.trace, "fetchfailed")) =>
    /\ last.res = "error"
    /\ bin[BinOf(last.p)] = last.preBin
    /\ bak[BinOf(last.p)] = Absent
    /\ record[last.p] = last.preRec
    /\ \E i, j \in DOMAIN last.trace :
         /\ i < j
         /\ last.trace[i].k = "fetchfailed"
         /\ last.trace[j] = S("start", SystemdName(last.p))

C1_Witness ==
  /\ last.op = "update"
  /\ Has(last.trace, "fetchfailed")
  /\ last.preBin # Absent
  /\ bin[BinOf(last.p)] = last.preBin

\* C2: an install that ends before its Installation record is written (a
\* failed dependency check, IP lookup, download, certificate issuance, config
\* validation, unit creation or liveness verification) returns an error, and
\* after an install that returned an error no record of the protocol exists.
C2_FailedInstallLeavesNoRecord ==
  (last.op = "install" /\ last.why # "cancelled") =>
    /\ ~Has(last.trace, "save") => last.res = "error"
    /\ last.res = "error" => ~IsInstalled(last.p)

C2_Witness ==
  /\ last.op = "install"
  /\ last.res = "error"
  /\ last.why = "verify"
  /\ ~IsInstalled(last.p)

\* C4: after install(P) returned success, P is installed and the version in
\* its Installation record is the version of the binary at the binary path.
C4_RecordVersionIsBinaryVersion ==
  (last.op = "install" /\ last.res = "ok") =>
    /\ IsInstalled(last.p)
    /\ record[last.p].version = bin[BinOf(last.p)]

\* C5: uninstall(P) returns success and leaves no Installation record of P,
\* whatever state P was in; and a second uninstall(P) in a row changes
\* nothing on the host, so the state after two equals the state after one.
C5_Step ==
  /\ (last' # last /\ last'.op = "uninstall") =>
       (last'.res = "ok" /\ record'[last'.p] = NoRecord)
  /\ (op = "uninstall" /\ loc.again /\ <<op, steps>>' # <<op, steps>>) =>
       UNCHANGED <<fsVars, sdVars>>

C5_UninstallIdempotent == [][C5_Step]_vars

C5_Witness ==
  /\ last.op = "uninstall"
  /\ last.again
  /\ last.res = "ok"
  /\ Has(last.trace, "rmrecord")
  /\ bin[BinOf(last.p)] # Absent

\* C6: an update(P) that finds the persisted version equal to the version
\* the lookup returned returns success without executing any statement (no
\* stop of the service) and leaves binaries, backups, records and services
\* as they were.
C6_Step ==
  (last' # last /\ last'.op = "update" /\ last'.why # "notinstalled"
    /\ last'.cur = last'.ver) =>
      /\ last'.res = "ok"
      /\ last'.trace = <<>>
      /\ UNCHANGED <<fsVars, sdVars>>

C6_UpToDateIsNoOp == [][C6_Step]_vars

C6_Witness ==
  /\ last.op = "update"
  /\ last.why = "uptodate"
  /\ last.cur = last.ver
  /\ active[SystemdName(last.p)]

\* C9: whenever no operation is running, the protocols health.Check treats
\* as installed are exactly those whose Installation record exists.
C9_HealthSeesTheRecords ==
  op = "idle" => \A p \in Prot : ServiceIsInstalled(p) <=> IsInstalled(p)

\* C10: during update(P) the .bak sibling holds the old binary from the
\* moment the primary was moved aside until the start with the new binary
\* has been attempted; and on the success path the version is persisted
\* before the start, and the start comes before the backup is deleted.
C10_BackupKeptUntilStart ==
  (op = "update" /\ loc.err = "" /\ loc.preBin # Absent) =>
    /\ (Has(trace, "backup") /\ ~Has(trace, "start")) =>
         bak[BinOf(prot)] = loc.preBin
    /\ Follows(trace, "saveversion", "start")
    /\ Follows(trace, "start", "rmbak")

C10_Witness ==
  /\ op = "update"
  /\ loc.preBin # Absent
  /\ Has(trace, "rmbak")
  /\ bak[BinOf(prot)] = Absent

\* C3: the health check never issues a restart of P's service while an
\* update or uninstall of P has executed its first statement and not yet
\* its last.
C3_Step ==
  ~ /\ hpc = "restart"
    /\ hpc' # "restart"
    /\ op \in {"update", "uninstall"}
    /\ prot = hcur
    /\ trace # <<>>
    /\ steps # <<>>

C3_NoRestartDuringOperation == [][C3_Step]_vars

\* C7: a tick that comes to an installed protocol P whose service is not
\* active (no operation on P running) issues a restart of P; when the
\* restart command works the tick goes on to the re-query; when the re-query
\* finds the service active the tick appends an INFO line for P and records
\* no error; and a tick that recorded no error returns success.
C7_Step ==
  /\ \A p \in Prot :
       (hpc = "loop" /\ p \in todo /\ p \notin todo'
         /\ IsInstalled(p) /\ prot # p /\ ~active[SystemdName(p)]) =>
           (hpc' = "restart" /\ hcur' = p)
  /\ (hpc = "restart" /\ hpc' = "settle") =>
       (active'[SystemdName(hcur)] /\ hcur' = hcur)
  /\ (hpc = "settle" /\ hpc' = "loop" /\ GetStatus(hcur) = "active") =>
       (hlog' = Append(hlog, Line("INFO", hcur)) /\ hasError' = hasError)
  /\ (hpc = "loop" /\ hpc' = "idle" /\ ~hasError) => tickResult' = "ok"

C7_RestartRecovers == [][C7_Step]_vars

C7_Witness ==
  /\ ticks = 1
  /\ hpc = "idle"
  /\ tickResult = "ok"
  /\ \E i \in DOMAIN hlog : hlog[i].level = "INFO" /\ IsInstalled(hlog[i].p)

\* C8: when the restart command fails, or the re-query still finds the
\* service not active, the tick appends an ERROR line for the protocol and
\* keeps the protocols it has not examined yet; the error stays recorded to
\* the end of the tick; the tick ends only when every protocol was examined
\* and then returns failure; and after any tick the daemon loop is ready to
\* start the next one.
C8_Step ==
  /\ (hpc = "restart" /\ hpc' = "loop") =>
       (hlog' = Append(hlog, Line("ERROR", hcur)) /\ hasError' /\ todo' = todo)
  /\ (hpc = "settle" /\ hpc' = "loop" /\ GetStatus(hcur) # "active") =>
       (hlog' = Append(hlog, Line("ERROR", hcur)) /\ hasError' /\ todo' = todo)
  /\ (hasError /\ ticks' = ticks) => hasError'
  /\ (hpc = "loop" /\ hpc' = "idle") =>
       (todo = {} /\ (hasError => tickResult' = "failed"))
  /\ (hpc = "idle" /\ ticks < MaxTicks) => ENABLED TickStart

C8_FailedRestartIsReported == [][C8_Step]_vars

C8_Witness ==
  /\ ticks = 2
  /\ hpc = "loop"
  /\ tickResult = "failed"
  /\ \E i \in DOMAIN hlog : hlog[i].level = "ERROR"

\* C11: no install comes to its `binary already present` test, and passes
\* it, with the beginning of a failed download at the binary path.
C11_NoPartialDownloadAccepted ==
  op = "install" =>
    \A i \in DOMAIN trace :
      trace[i].k = "download" => bin[trace[i].x] # Partial

\* C12: an install of a sing-box based protocol has enabled or started the
\* service only after `sing-box check` accepted the synthesized config.
C12_CheckedBeforeStart ==
  (op = "install" /\ prot \in {"singbox", "reality", "hysteria2", "anytls"}
    /\ (Has(trace, "enable") \/ Has(trace, "start"))) => loc.checked

\* C13: an install of Hysteria2 or AnyTLS writes into the config directory,
\* writes the service unit or writes the Installation record only after the
\* certificate issuance has succeeded; and when the issuance fails the
\* install returns an error, having written none of them.
C13_Step ==
  /\ (/\ op = "install"
      /\ prot \in TLSProt
      /\ \/ ~(etc'[prot] \subseteq etc[prot])
         \/ (unit'[SystemdName(prot)] /\ ~unit[SystemdName(prot)])
         \/ (record'[prot] # record[prot] /\ record'[prot] # NoRecord))
       => Has(trace, "issue")
  /\ (last' # last /\ last'.op = "install" /\ last'.why = "issue") =>
       /\ last'.res = "error"
       /\ ~Has(last'.trace, "mkdir")
       /\ UNCHANGED <<etc, unit, record>>

C13_IssuanceFirst == [][C13_Step]_vars

C13_Witness ==
  /\ last.op = "install"
  /\ last.p \in TLSProt
  /\ last.why = "issue"
  /\ etc[last.p] = {}
  /\ ~unit[SystemdName(last.p)]
  /\ ~IsInstalled(last.p)

\* C14: a liveness poll makes at most MaxWait queries; when the poll of a
\* Hysteria2 or AnyTLS install saw no active service the install still
\* returns success with the Installation record, config and unit in place;
\* when the poll of a Snell, Sing-box or Reality install saw none the install
\* returns an error and no record exists.
C14_SlowStartByProtocol ==
  /\ op = "install" => loc.polls < MaxWait(prot)
  /\ (last.op = "install" /\ last.slow) =>
       /\ last.p \in TLSProt
       /\ last.res = "ok"
       /\ IsInstalled(last.p)
       /\ ServiceIsInstalled(last.p)
       /\ unit[SystemdName(last.p)]
  /\ (last.op = "install" /\ last.why = "verify") =>
       /\ last.p \notin TLSProt
       /\ last.res = "error"
       /\ ~IsInstalled(last.p)

C14_Witness ==
  /\ last.op = "install"
  /\ last.slow
  /\ last.res = "ok"
  /\ IsInstalled(last.p)
  /\ ~active[SystemdName(last.p)]

\* the units an install of p creates
UnitsOf(p) == {u \in Units : ProtOfUnit(u) = p}

C16_UninstallReportsFailure ==
  (last.op = "uninstall" /\ last.failed) =>
    /\ Has(last.trace, "rmetc")
    /\ Has(last.trace, "rmrecord")
    /\ last.res = "error"

\* C17: a certificate renewal that fails, in the ACME renew call or while
\* the key and certificate are installed into the service directory, leaves
\* the key and certificate file of the service as the pair they were before,
\* and has not restarted the service.
C17_FailedRenewalKeepsPair ==
  (last.op = "renew" /\ last.res = "error"
    /\ last.why \in {"renew", "cert"}) =>
      /\ tls[last.p] = last.preTls
      /\ ~Has(last.trace, "restart")

\* C18: a certificate renewal runs exactly when the Installation record
\* exists and holds a non-empty domain; otherwise it returns an error and
\* changes nothing. It never changes a field of the record, and a renewal
\* that follows a renewal changes nothing but the certificate the files hold
\* (and whether the restarted daemon is up).
C18_Step ==
  /\ (op = "idle" /\ last'.op = "renew" /\ last' # last) =>
        /\ ~IsInstalled(last'.p) \/ record[last'.p].domain = ""
        /\ last'.res = "error"
        /\ UNCHANGED <<fsVars, sdVars>>
  /\ (op = "idle" /\ op' = "renew") =>
        IsInstalled(prot') /\ record[prot'].domain # ""
  /\ op = "renew" => record' = record
  /\ (op = "renew" /\ loc.again) =>
        /\ UNCHANGED <<bin, bak, etc, unit, user, enabled, acmeSh>>
        /\ tls'[prot].owner = tls[prot].owner
        /\ tls'[prot].keyMode = tls[prot].keyMode
        /\ tls'[prot].crtMode = tls[prot].crtMode
        /\ \A q \in TLSProt \ {prot} : tls'[q] = tls[q]

C18_RenewalNeedsOnlyTheRecord == [][C18_Step]_vars

\* a renewal has succeeded right after a successful renewal
C18_Witness ==
  /\ last.op = "renew" /\ last.res = "ok" /\ last.again
  /\ record[last.p] = last.preRec
  /\ tls[last.p].key = acme /\ tls[last.p].crt = acme

\* C19: when the install of a domain-validated protocol has completed, the
\* key file has mode 0600 and belongs to the service's own user, and the
\* certificate file has mode 0644.
C19_KeyBelongsToServiceUser ==
  (last.op = "install" /\ last.p \in TLSProt /\ last.res = "ok"
    /\ Has(last.trace, "save")) =>
      /\ tls[last.p].keyMode = "0600"
      /\ tls[last.p].crtMode = "0644"
      /\ tls[last.p].owner = UserOfUnit(SystemdName(last.p))

\* the runs at are standalone first, webroot only after a failed standalone,
\* and none after a run that succeeded
C20_Order(at) ==
  /\ Len(at) <= 2
  /\ Len(at) >= 1 => at[1].mode = "standalone"
  /\ Len(at) = 2 => at[2].mode = "webroot" /\ ~at[1].ok

\* C20 as stated: issuance tries standalone first and webroot only when
\* standalone failed; it returns an error only when both modes have failed,
\* and success as soon as one has succeeded.
C20_ErrorOnlyWhenBothFail ==
  /\ (op = "install" /\ Has(trace, "issue")) =>
        /\ C20_Order(loc.attempts)
        /\ loc.attempts # <<>>
        /\ loc.attempts[Len(loc.attempts)].ok
  /\ (last.op = "install" /\ last.why = "issue") =>
        /\ C20_Order(last.attempts)
        /\ Len(last.attempts) = 2
        /\ \A i \in 1..2 : ~last.attempts[i].ok

\* C20, amended: issuance tries standalone first and webroot only when
\* standalone failed, and returns success as soon as one has succeeded; it
\* returns an error when both modes have failed, and also, before any mode
\* is tried, when acme.sh is missing and cannot be installed.
C20_ErrorWhenNoModeSucceeds ==
  /\ (op = "install" /\ Has(trace, "issue")) =>
        /\ C20_Order(loc.attempts)
        /\ loc.attempts # <<>>
        /\ loc.attempts[Len(loc.attempts)].ok
  /\ (last.op = "install" /\ last.why = "issue") =>
        /\ C20_Order(last.attempts)
        /\ \/ last.attempts = <<>> /\ ~acmeSh
           \/ Len(last.attempts) = 2 /\ \A i \in 1..2 : ~last.attempts[i].ok

\* the webroot run has succeeded after the standalone run failed
C20_Witness ==
  /\ op = "install" /\ Has(trace, "issue")
  /\ Len(loc.attempts) = 2
  /\ issued > 0 /\ acme = issued

\* C21: DownloadFile(url, dest, n), n >= 1, makes at most n attempts; it
\* returns success at the first attempt that succeeds and makes no attempt
\* after it; an attempt that ends in a status other than 200 is a failed
\* attempt like any other and is followed by the next one; when all n
\* attempts have failed the error carries the reason of the last one; and
\* the call always returns.
C21_Safe ==
  /\ Len(call.tried) <= call.retries
  /\ \A k \in DOMAIN call.tried :
       call.tried[k] = "nil" => k = Len(call.tried) /\ call.ret = "nil"
  /\ call.ret = "nil" =>
       call.tried # <<>> /\ call.tried[Len(call.tried)] = "nil"
  /\ call.ret = "error" =>
       /\ Len(call.tried) = call.retries
       /\ call.lastErr = call.tried[call.retries]
       /\ call.lastErr # "nil"
  /\ call.ret = "running" => Len(call.tried) < call.retries

C21_AtMostNAttempts == []C21_Safe /\ <>(call.ret # "running")

\* three attempts have failed, the first with a status other than 200 and
\* the last for another reason
C21_Witness ==
  /\ call.ret = "error"
  /\ Len(call.tried) = 3
  /\ call.tried[1] = "HTTP 404"
  /\ call.tried[3] = "copy"

\* the path p lies in the directory dest or is dest itself
C22_Inside(dest, p) ==
  Len(p) >= Len(dest) /\ SubSeq(p, 1, Len(dest)) = dest

\* C22: when the name of an archive entry resolves outside the destination
\* directory, ExtractTarGz returns an error, and it writes nothing outside
\* the destination directory.
C22_NoWriteOutsideDest ==
  /\ \A p \in call.written : C22_Inside(call.dest, p)
  /\ \A k \in 1..Len(call.tar) :
       (k < call.next /\ call.tar[k].Typeflag \in {"TypeDir", "TypeReg"}
         /\ ~C22_Inside(call.dest, Join(call.dest, call.tar[k].Name)))
       => call.ret = "error"

\* the last four statements executed are one whole RemoveSystemdService(u):
\* stop, disable, deletion of the unit file, reload, in this order, and the
\* unit file is gone
C23_Removed ==
  /\ Len(trace) >= 4
  /\ LET n == Len(trace)
         u == trace[n].x
     IN  /\ trace[n - 3] = S("stop", u)
         /\ trace[n - 2] = S("disable", u)
         /\ trace[n - 1] = S("rmunit", u)
         /\ ~unit[u]
         /\ ~active[u] /\ ~enabled[u]

\* C23 as stated: RemoveSystemdService(name) stops and disables the unit
\* before it deletes the unit file and reloads the service manager after
\* the deletion; when the unit file does not exist it returns success.
C23_AbsentUnitIsSuccess ==
  (Busy /\ trace # <<>> /\ trace[Len(trace)].k = "reload") =>
    /\ C23_Removed
    /\ ~loc.hadUnit => loc.removed = "nil"

\* C23, amended: the same order; when the unit file does not exist the
\* deletion is skipped without an error, and what is returned is the result
\* of the reload, an error exactly when the reload failed.
C23_AbsentUnitIsNoError ==
  /\ (Busy /\ trace # <<>> /\ trace[Len(trace)].k = "reload") =>
        /\ C23_Removed
        /\ loc.removed \in {"nil", "error"}
        /\ loc.removed = "error" => loc.failed
  /\ (Busy /\ ~Has(trace, "reload")) => ~loc.failed

\* a RemoveSystemdService of a unit that has no unit file has returned nil
C23_Witness ==
  /\ op = "uninstall"
  /\ trace # <<>> /\ trace[Len(trace)].k = "reload"
  /\ ~loc.hadUnit
  /\ loc.removed = "nil"

\* the statements of UninstallX
C24_UninstallKinds ==
  {"certremove", "stop", "disable", "rmunit", "reload", "rmbin", "rmetc",
   "rmrecord", "rmshared", "deluser"}

\* C24: an install over an existing record and an uninstall from the menu
\* execute no statement of UninstallX unless the operator has answered yes
\* to the prompt that precedes it, and when the operator declines, records,
\* files, units and services stay as they are.
C24_Step ==
  /\ (op = "idle" /\ nops' # nops /\ last'.why = "cancelled") =>
        /\ op' = "idle"
        /\ UNCHANGED <<fsVars, sdVars>>
  /\ (op \in {"install", "uninstall"} /\ steps # <<>> /\ trace' # trace
        /\ Head(steps).k \in C24_UninstallKinds) => loc.affirmed
  /\ (op = "idle" /\ op' = "uninstall") => loc'.affirmed
  /\ (op = "idle" /\ op' = "install" /\ IsInstalled(prot')) => loc'.affirmed

C24_ConfirmedBeforeDestroying == [][C24_Step]_vars

\* the operator has declined the reinstall or uninstall of an installed
\* protocol
C24_Witness ==
  /\ last.why = "cancelled"
  /\ last.p \in Prot
  /\ IsInstalled(last.p)

\* C25: in every tick each protocol that health.Check finds installed (its
\* backend config exists) and not active gets one restart attempt, and a
\* protocol that is active or not installed gets none; a tick examines
\* every protocol anew, whatever earlier ticks did, and never restarts a
\* protocol twice.
C25_Step ==
  /\ \A p \in Prot :
       (hpc = "loop" /\ p \in todo /\ p \notin todo') =>
         /\ todo' = todo \ {p}
         /\ hpc' \in {"loop", "restart"}
         /\ (hpc' = "restart") <=>
              ("config" \in etc[p] /\ ~active[SystemdName(p)])
         /\ hpc' = "restart" => hcur' = p
  /\ hpc = "restart" => hcur \notin todo
  /\ (hpc = "restart" /\ hpc' # "restart") =>
       (hpc' \in {"settle", "loop"} /\ todo' = todo)
  /\ (hpc = "settle" /\ hpc' # "settle") => (hpc' = "loop" /\ todo' = todo)
  /\ (hpc # "restart" /\ hpc' = "restart") => hpc = "loop"
  /\ (hpc = "idle" /\ hpc' # "idle") => (hpc' = "loop" /\ todo' = Prot)
  /\ (hpc = "loop" /\ hpc' = "idle") => todo = {}

C26_Step ==
  healthVars' # healthVars =>
    /\ UNCHANGED <<record, bin, bak, etc, unit, user, certVars, enabled>>
    /\ UNCHANGED orchVars
    /\ \/ hlog' = hlog
       \/ \E l \in [level : {"WARNING", "ERROR", "INFO"}, p : Prot] :
            hlog' = Append(hlog, l)
    /\ \A u \in Units :
         active'[u] # active[u] => (hpc = "restart" /\ u = SystemdName(hcur))

C26_HealthOnlyRestartsAndLogs == [][C26_Step]_vars

\* a tick has restarted a service and logged it while records, binaries and
\* unit files exist
C26_Witness ==
  /\ hpc = "idle" /\ ticks > 0
  /\ \E i \in DOMAIN hlog : hlog[i].level = "INFO"
  /\ \E p \in Prot : IsInstalled(p) /\ unit[SystemdName(p)]

\* C27: the record rewrite of a successful update changes only the version:
\* every other key the record file held before, known to the program or
\* not, is there afterwards with the value it had.
C27_Step ==
  call'.updates # call.updates =>
    LET before == ParseConfigFile(call.file)
        after == ParseConfigFile(call'.file)
    IN  /\ DOMAIN after = DOMAIN before \cup {<<"V">>}
        /\ \A k \in DOMAIN before \ {<<"V">>} : after[k] = before[k]

C27_UpdateKeepsOtherKeys == [][C27_Step]_vars

\* an update has written a new version into a record that holds a key the
\* program does not know
C27_Witness ==
  /\ call.updates = 1
  /\ call.edits = 1
  /\ <<"X">> \in DOMAIN ParseConfigFile(call.file)
  /\ ParseConfigFile(call.file)[<<"V">>] = <<"b">>

\* the line is blank or a comment
C28_Ignored(line) == TrimSpace(line) = <<>> \/ TrimSpace(line)[1] = "#"

\* C28: parsing the file SaveConfigFile wrote for a record m gives m back,
\* also when values hold "="; parsing passes over blank lines and lines that
\* start with "#"; and the record file has mode 0600.
C28_RoundTrip ==
  call.pc = "saved" =>
    /\ (call.edits = 0 /\ call.updates = 0) => ParseConfigFile(call.file) = call.m
    /\ ParseConfigFile(call.file) =
         ParseConfigFile(SelectSeq(call.file, LAMBDA l : ~C28_Ignored(l)))
    /\ \A i \in DOMAIN call.file :
         C28_Ignored(call.file[i]) =>
           ParseConfigFile(call.file) =
             ParseConfigFile(SubSeq(call.file, 1, i - 1) \o
                             SubSeq(call.file, i + 1, Len(call.file)))
    /\ call.mode = "0600"

\* a record with a value that holds and ends in "=" has been saved
C28_Witness ==
  /\ call.pc = "saved"
  /\ call.edits = 0 /\ call.updates = 0
  /\ call.m[<<"P">>] = <<"a", "=">>
  /\ call.m[<<"V">>] = <<"=", "=">>

\* C29: an install of Hysteria2 or AnyTLS in which the operator gives no
\* domain returns an error without having requested a certificate or
\* written a config, unit or record; and the domain an install works with
\* and persists is the one the operator typed, never one the program
\* filled in.
C29_Step ==
  /\ (last' # last /\ last'.op = "install" /\ last'.why = "domain") =>
        /\ last'.res = "error"
        /\ last'.p \in TLSProt
        /\ \A k \in {"issue", "mkdir", "cert", "config", "unit", "save"} :
             ~Has(last'.trace, k)
        /\ UNCHANGED <<record, etc, unit, acme, issued, tls>>
        /\ ~IsInstalled(last'.p)
  /\ (op' = "install" /\ Has(trace', "domain")) => loc'.domain = "example.org"
  /\ \A p \in TLSProt : IsInstalled(p)' => record'[p].domain = "example.org"

C29_EmptyDomainIsRefused == [][C29_Step]_vars

\* an install of a domain-validated protocol has been refused for its
\* empty domain
C29_Witness ==
  /\ last.op = "install"
  /\ last.p \in TLSProt
  /\ last.why = "domain"
  /\ issued = 0

\* C30: the version lookup of an install never ends the install: when no tag
\* could be got the install goes on with the hard-coded default version of
\* the protocol, otherwise with the tag that was got.
C30_Step ==
  (op = "install" /\ At("lookup") /\ steps' # steps) =>
    /\ op' = "install"
    /\ At("download")'
    /\ IF prot = "snell"
       THEN /\ loc'.ver = DefaultSnellVersion
            /\ loc'.stls = IF loc'.tag = NoTag THEN DefaultShadowTLSVersion
                           ELSE loc'.tag
       ELSE loc'.ver = IF loc'.tag = NoTag THEN DefaultSingboxVersion
                       ELSE loc'.tag

C30_FailedLookupUsesDefault == [][C30_Step]_vars

\* an install whose lookup failed has downloaded the default version
C30_Witness ==
  /\ op = "install"
  /\ loc.tag = NoTag
  /\ Has(trace, "download")
  /\ loc.ver \in {DefaultSnellVersion, DefaultSingboxVersion}
  /\ prot = "snell" => loc.stls = DefaultShadowTLSVersion

\* the place of a statement in the order config, unit, enable, start,
\* liveness poll, record; 0 for any other statement
C31_Rank(k) ==
  CASE k = "config" -> 1
    [] k = "unit" -> 2
    [] k = "enable" -> 3
    [] k = "start" -> 4
    [] k = "verify" -> 5
    [] k = "save" -> 6
    [] OTHER -> 0

\* C31: the statements of an install come in the order backend config, unit,
\* enable, start, liveness poll, Installation record, and a successful
\* install has executed all six; the record is written only after a start of
\* every unit of the protocol was attempted, and the install writes nothing
\* after the record.
C31_Step ==
  /\ op = "install" =>
       \A i, j \in DOMAIN trace :
         (i < j /\ C31_Rank(trace[i].k) > 0 /\ C31_Rank(trace[j].k) > 0) =>
           C31_Rank(trace[i].k) <= C31_Rank(trace[j].k)
  /\ (last' # last /\ last'.op = "install" /\ last'.res = "ok") =>
       /\ \A r \in 1..6 :
            \E i \in DOMAIN last'.trace : C31_Rank(last'.trace[i].k) = r
       /\ last'.trace[Len(last'.trace)].k = "save"
       /\ UNCHANGED <<fsVars, sdVars>>
  /\ (op = "install" /\ record'[prot] # record[prot]
       /\ record'[prot] # NoRecord) =>
       \A u \in UnitsOf(prot) : \E i \in DOMAIN trace : trace[i] = S("start", u)

C31_InstallOrder == [][C31_Step]_vars

\* an install has returned success with its record written last
C31_Witness ==
  /\ last.op = "install"
  /\ last.res = "ok"
  /\ IsInstalled(last.p)
  /\ last.trace[Len(last.trace)].k = "save"
  /\ active[SystemdName(last.p)]

\* C32: when update(P) has returned success after it found a version other
\* than the recorded one and the operator confirmed, the binary path holds
\* the version that was fetched, into a path the old binary had left; the
\* record names that version, no .bak sibling is left and a start of P's
\* service was issued after the fetch.
C32_Step ==
  /\ (op = "update" /\ At("download") /\ steps' # steps /\ loc'.err = "") =>
        /\ bin[Arg] = Absent
        /\ bin'[Arg] = loc.ver
  /\ (last' # last /\ last'.op = "update" /\ last'.res = "ok"
        /\ last'.trace # <<>>) =>
        /\ last'.ver # last'.cur
        /\ bin'[BinOf(last'.p)] = last'.ver
        /\ record'[last'.p].version = last'.ver
        /\ bak'[BinOf(last'.p)] = Absent
        /\ \E i, j \in DOMAIN last'.trace :
             /\ i < j
             /\ last'.trace[i] = S("download", BinOf(last'.p))
             /\ last'.trace[j] = S("start", SystemdName(last'.p))

C32_UpdateInstallsFetched == [][C32_Step]_vars

\* an update has replaced a binary by a newer one
C32_Witness ==
  /\ last.op = "update"
  /\ last.res = "ok"
  /\ Has(last.trace, "download")
  /\ last.preBin # Absent
  /\ last.preBin # last.ver
  /\ bin[BinOf(last.p)] = last.ver

\* C33: every certificate renewal entry point, the renew-certificate action
\* of the menu included, restarts the service only after it has run the
\* issuance for the recorded domain and then installed key and certificate
\* into the service's directory.
C33_RenewalOrder ==
  /\ (op = "renew" /\ Has(trace, "restart")) =>
        \E i, j \in DOMAIN trace :
          i < j /\ trace[i].k = "renew" /\ trace[j].k = "cert"
  /\ (last.op \in {"renew", "doRenewCert"} /\ IsInstalled(last.p)
        /\ Has(last.trace, "restart")) =>
        \E i, j, k \in DOMAIN last.trace :
          /\ i < j /\ j < k
          /\ last.trace[i].k = "renew"
          /\ last.trace[j].k = "cert"
          /\ last.trace[k].k = "restart"

\* C34: whenever no operation is running, the record of every installed
\* protocol that runs on the shared sing-box binary names the version of the
\* binary at the shared path.
C34_SharedBinaryVersionRecorded ==
  op = "idle" =>
    \A p \in Prot \ {"snell"} :
      IsInstalled(p) => record[p].version = bin["sing-box"]

\* C35: the uninstall of a protocol (on its own or as the first part of a
\* reinstall) deletes neither the shared sing-box binary nor the sing-box
\* user while another protocol with an Installation record has a service
\* unit that runs that binary.
C35_Step ==
  (/\ op \in {"uninstall", "install"}
   /\ \/ At("rmbin") /\ bin["sing-box"] # Absent /\ bin'["sing-box"] = Absent
      \/ At("deluser") /\ user["sing-box"] /\ ~user'["sing-box"]) =>
    ~ \E q \in Prot \ {prot} :
        /\ IsInstalled(q)
        /\ unit[SystemdName(q)]
        /\ BinOfUnit(SystemdName(q)) = "sing-box"

C35_SharedBinaryKeptWhileUsed == [][C35_Step]_vars

\* C36: an update whose remote lookup failed, so that the hard-coded default
\* came back as the latest version, moves no binary aside and writes no
\* version; and the version an update writes into the record is never older
\* than the one the record held.
C36_NoUpdateToTheDefault ==
  /\ (op = "update" /\ prot # "snell" /\ loc.tag = NoTag) =>
        /\ ~Has(trace, "backup")
        /\ ~Has(trace, "saveversion")
  /\ (op = "update" /\ Has(trace, "saveversion")) =>
        record[prot].version >= loc.cur

\* C37: when a tick comes to an installed protocol on which no operation is
\* running and a unit of that protocol, whichever the install created, is
\* not active, the tick goes on to restart the protocol.
C37_Step ==
  \A p \in Prot :
    (/\ hpc = "loop" /\ p \in todo /\ p \notin todo'
     /\ op = "idle"
     /\ IsInstalled(p)
     /\ \E u \in UnitsOf(p) : unit[u] /\ ~active[u]) =>
      (hpc' = "restart" /\ hcur' = p)

C37_EveryUnitSupervised == [][C37_Step]_vars

\* C38: with the health daemon running beside the operator, once an
\* uninstall of P has returned no unit of P is active.
C38_StoppedAfterUninstall ==
  (op = "idle" /\ last.op = "uninstall") =>
    \A u \in UnitsOf(last.p) : ~active[u]

\* C39: an install over an existing installation, once confirmed, first runs
\* the whole uninstall and then the install; when a step of that install
\* fails, the install returns an error and the protocol has no Installation
\* record, neither the old one nor a new one.
C39_FailedReinstallLeavesNoRecord ==
  /\ (op = "install" /\ loc.affirmed /\ Has(trace, "precheck")) =>
        /\ Has(trace, "rmrecord")
        /\ ~Has(trace, "save") => ~IsInstalled(prot)
  /\ (op = "install" /\ loc.affirmed) => Follows(trace, "rmrecord", "precheck")
  /\ (last.op = "install" /\ last.res = "error" /\ last.why # "cancelled") =>
        ~IsInstalled(last.p)

\* a confirmed reinstall has failed after the old installation was removed
C39_Witness ==
  /\ last.op = "install"
  /\ last.res = "error"
  /\ last.why \in {"download", "unit", "verify", "check", "issue"}
  /\ Has(last.trace, "rmrecord")
  /\ ~IsInstalled(last.p)

\* C40: an update of a protocol that has no Installation record returns a
\* `not installed` error, and an update declined at its prompt returns
\* success; neither executes a statement, and both leave every service,
\* binary, backup and record as it was. An update that goes on has found a
\* record.
C40_Step ==
  /\ (op = "idle" /\ last' # last /\ last'.op = "update"
        /\ record[last'.p] = NoRecord) =>
        /\ last'.res = "error"
        /\ last'.why = "notinstalled"
  /\ (last' # last /\ last'.op = "update" /\ last'.why = "declined") =>
        last'.res = "ok"
  /\ (last' # last /\ last'.op = "update"
        /\ last'.why \in {"notinstalled", "declined"}) =>
        /\ op = "idle" /\ op' = "idle"
        /\ last'.trace = <<>>
        /\ UNCHANGED <<fsVars, sdVars>>
  /\ (op = "idle" /\ op' = "update") => record[prot'] # NoRecord

C40_RefusedUpdateChangesNothing == [][C40_Step]_vars

\* an update of a running, installed protocol has been declined at the
\* prompt
C40_Witness ==
  /\ last.op = "update"
  /\ last.why = "declined"
  /\ last.res = "ok"
  /\ last.cur # last.ver
  /\ record[last.p] # NoRecord
  /\ active[SystemdName(last.p)]

====
